---- MODULE Spec2Model ----
(***************************************************************************)
(* Model of statping's handlers package (handlers/handlers.go): the server *)
(* bootstrapper RunHTTPServer / StopHTTPServer, the authentication queries *)
(* IsReadAuthenticated, IsFullAuthenticated, ScopeName, IsAdmin, IsUser,   *)
(* and the response writers ExecuteResponse and error404Handler.           *)
(***************************************************************************)
EXTENDS Integers, Sequences, FiniteSets, TLC

\* Number of times the signing key and the router can be renewed.
MaxKey == 2

VARIABLES
    usingSSL,    \* handlers.go:26  global flag
    jwtKey,      \* handlers.go:24  identity of the current signing key
    httpServer,  \* handlers.go:25  the server handle ("nil" or a transport mode)
    router,      \* identity of the router built by Router()
    setupMode,   \* the process environment signal read by hasSetupEnv()
    pc,          \* "idle", or "serving" while RunHTTPServer blocks in a listener
    call,        \* the last call to RunHTTPServer: its inputs, steps and return
    ev           \* the last operation with its request and its results

vars == <<usingSSL, jwtKey, httpServer, router, setupMode, pc, call, ev>>

----------------------------------------------------------------------------
\* Requests

Cred == {"none", "invalid", "valid"}

NoCookie  == [kind |-> "absent", key |-> 0, admin |-> FALSE, state |-> "none"]
BadCookie == [kind |-> "malformed", key |-> 0, admin |-> FALSE, state |-> "none"]

\* Tokens a client can present: signed with a key that has existed so far;
\* intact, with a tampered signature, or past their expiry.
Tokens(k) == [kind : {"token"}, key : 0..k, admin : BOOLEAN,
              state : {"intact", "tampered", "expired"}]

Cookies(k) == {NoCookie, BadCookie} \cup Tokens(k)

Requests(k) == [cookie : Cookies(k), apiQuery : Cred, authHeader : Cred]

NoReq == [cookie |-> NoCookie, apiQuery |-> "none", authHeader |-> "none"]

----------------------------------------------------------------------------
\* Helpers of the package that the queries call

hasSetupEnv == setupMode

hasAPIQuery(r) == r.apiQuery = "valid"

hasAuthorizationHeader(r) == r.authHeader = "valid"

\* Decodes and verifies the statping_auth cookie against the current key.
getJwtToken(r) ==
    IF /\ r.cookie.kind = "token"
       /\ r.cookie.state = "intact"
       /\ r.cookie.key = jwtKey
    THEN [err |-> FALSE, Admin |-> r.cookie.admin, Valid |-> TRUE]
    ELSE [err |-> TRUE, Admin |-> FALSE, Valid |-> FALSE]

\* Renews the signing key, so that tokens signed before are no longer verified.
resetCookies == jwtKey + 1

Router == router + 1

----------------------------------------------------------------------------
\* The authentication queries.  Each yields its return value and whether it
\* read the cookie token (tok).

\* IsFullAuthenticated with the token's admin flag dropped.
IsFullAuthenticated_denies(r) ==
    IF hasSetupEnv THEN [ret |-> TRUE, tok |-> FALSE]
    ELSE IF hasAPIQuery(r) THEN [ret |-> TRUE, tok |-> FALSE]
    ELSE IF hasAuthorizationHeader(r) THEN [ret |-> TRUE, tok |-> FALSE]
    ELSE [ret |-> FALSE, tok |-> TRUE]

IsFullAuthenticated(r) ==
    IF hasSetupEnv THEN [ret |-> TRUE, tok |-> FALSE]
    ELSE IF hasAPIQuery(r) THEN [ret |-> TRUE, tok |-> FALSE]
    ELSE IF hasAuthorizationHeader(r) THEN [ret |-> TRUE, tok |-> FALSE]
    ELSE LET claim == getJwtToken(r) IN
         IF claim.err THEN [ret |-> FALSE, tok |-> TRUE]
         ELSE [ret |-> claim.Admin, tok |-> TRUE]

IsReadAuthenticated(r) ==
    IF hasSetupEnv THEN [ret |-> TRUE, tok |-> FALSE]
    ELSE IF hasAPIQuery(r) THEN [ret |-> TRUE, tok |-> FALSE]
    ELSE IF hasAuthorizationHeader(r) THEN [ret |-> TRUE, tok |-> FALSE]
    ELSE IsFullAuthenticated(r)

\* ScopeName with the cookie token taking precedence over the API credentials.
ScopeName_tokenFirst(r) ==
    LET claim == getJwtToken(r) IN
    IF ~claim.err THEN [ret |-> IF claim.Admin THEN "admin" ELSE "user", tok |-> TRUE]
    ELSE IF hasAPIQuery(r) THEN [ret |-> "admin", tok |-> TRUE]
    ELSE IF hasAuthorizationHeader(r) THEN [ret |-> "admin", tok |-> TRUE]
    ELSE [ret |-> "", tok |-> TRUE]

ScopeName(r) ==
    IF hasAPIQuery(r) THEN [ret |-> "admin", tok |-> FALSE]
    ELSE IF hasAuthorizationHeader(r) THEN [ret |-> "admin", tok |-> FALSE]
    ELSE LET claim == getJwtToken(r) IN
         IF claim.err THEN [ret |-> "", tok |-> TRUE]
         ELSE IF claim.Admin THEN [ret |-> "admin", tok |-> TRUE]
         ELSE [ret |-> "user", tok |-> TRUE]

\* IsAdmin with the setup-mode bypass of the other queries.
IsAdmin_bypass(r) ==
    IF hasSetupEnv THEN [ret |-> TRUE, tok |-> FALSE]
    ELSE LET claim == getJwtToken(r) IN
         IF claim.err THEN [ret |-> FALSE, tok |-> TRUE]
         ELSE [ret |-> claim.Admin, tok |-> TRUE]

IsAdmin(r) ==
    LET claim == getJwtToken(r) IN
    IF claim.err THEN [ret |-> FALSE, tok |-> TRUE]
    ELSE [ret |-> claim.Admin, tok |-> TRUE]

\* IsUser with the decode error ignored.
IsUser_ignoresErr(r) ==
    IF hasSetupEnv THEN [ret |-> TRUE, tok |-> FALSE]
    ELSE [ret |-> TRUE, tok |-> TRUE]

IsUser(r) ==
    IF hasSetupEnv THEN [ret |-> TRUE, tok |-> FALSE]
    ELSE LET tk == getJwtToken(r) IN
         IF tk.err THEN [ret |-> FALSE, tok |-> TRUE]
         ELSE IF ~tk.Valid THEN [ret |-> FALSE, tok |-> TRUE]
         ELSE [ret |-> TRUE, tok |-> TRUE]

NoRes == [read |-> [ret |-> FALSE, tok |-> FALSE],
          full |-> [ret |-> FALSE, tok |-> FALSE],
          scope |-> [ret |-> "", tok |-> FALSE],
          admin |-> [ret |-> FALSE, tok |-> FALSE],
          user |-> [ret |-> FALSE, tok |-> FALSE]]

\* The five queries on one request.
Resolve(r) == [read |-> IsReadAuthenticated(r),
               full |-> IsFullAuthenticated(r),
               scope |-> ScopeName(r),
               admin |-> IsAdmin(r),
               user |-> IsUser(r)]

----------------------------------------------------------------------------
\* Response writers

NoResp == [hsts |-> 0, status |-> 0, rendered |-> FALSE]

ExecuteResponse(w, redirect) ==
    IF redirect THEN [w EXCEPT !.status = 303]
    ELSE [w EXCEPT !.hsts = IF usingSSL THEN @ + 1 ELSE @,
                   !.status = IF @ = 0 THEN 200 ELSE @,
                   !.rendered = TRUE]

error404Handler(w) ==
    LET w1 == [w EXCEPT !.hsts = IF usingSSL THEN @ + 1 ELSE @]
        w2 == [w1 EXCEPT !.status = 404]
    IN ExecuteResponse(w2, FALSE)

----------------------------------------------------------------------------
\* Bootstrapper

\* handlers.go:46-52: the flag after the probe of server.key and server.crt
\* The probe with the flag cleared when a file is missing.
probeSSL_clears(key, cert) == key /\ cert

probeSSL(key, cert) == IF key /\ cert THEN TRUE ELSE usingSSL

\* handlers.go:57-63: the listener that is started
startOf(letsencrypt, ssl) ==
    IF letsencrypt THEN "startLetsEncryptServer"
    ELSE IF ssl THEN "startSSLServer"
    ELSE "startServer"

ModeOf(start) ==
    CASE start = "startLetsEncryptServer" -> "AutoTLS"
      [] start = "startSSLServer" -> "StaticTLS"
      [] start = "startServer" -> "Plain"
      [] OTHER -> "nil"

NoCall == [called |-> FALSE, disable |-> FALSE, letsencrypt |-> FALSE,
           key |-> FALSE, cert |-> FALSE, steps |-> <<>>,
           failure |-> "none", ret |-> "none"]

Event(op, req, res, w, redirect) ==
    [op |-> op, req |-> req, res |-> res, w |-> w, redirect |-> redirect]

Init ==
    /\ usingSSL = FALSE
    /\ jwtKey = 0
    /\ httpServer = "nil"
    /\ router = 0
    /\ setupMode \in BOOLEAN
    /\ pc = "idle"
    /\ call = NoCall
    /\ ev = Event("none", NoReq, NoRes, NoResp, FALSE)

\* RunHTTPServer without the call of resetCookies.
RunHTTPServer_noReset(disable, letsencrypt, key, cert, bindOK) ==
    /\ pc = "idle"
    /\ IF disable
       THEN /\ call' = [called |-> TRUE, disable |-> TRUE, letsencrypt |-> letsencrypt,
                        key |-> FALSE, cert |-> FALSE, steps |-> <<>>,
                        failure |-> "none", ret |-> "nil"]
            /\ UNCHANGED <<usingSSL, jwtKey, httpServer, router, pc>>
       ELSE /\ router < MaxKey
            /\ usingSSL' = probeSSL(key, cert)
            /\ router' = Router
            /\ jwtKey' = jwtKey
            /\ LET start == startOf(letsencrypt, usingSSL') IN
               /\ httpServer' = ModeOf(start)
               /\ call' = [called |-> TRUE, disable |-> FALSE, letsencrypt |-> letsencrypt,
                           key |-> key, cert |-> cert,
                           steps |-> <<"FileExists", "FileExists", "Router", start>>,
                           failure |-> IF bindOK THEN "none" ELSE "bind",
                           ret |-> IF bindOK THEN "none" ELSE "error"]
            /\ pc' = IF bindOK THEN "serving" ELSE "idle"
    /\ ev' = Event("RunHTTPServer", NoReq, NoRes, NoResp, FALSE)
    /\ UNCHANGED setupMode

\* RunHTTPServer with the files probed before DISABLE_HTTP is looked at.
RunHTTPServer_probesFirst(disable, letsencrypt, key, cert, bindOK) ==
    /\ pc = "idle"
    /\ usingSSL' = probeSSL(key, cert)
    /\ IF disable
       THEN /\ call' = [called |-> TRUE, disable |-> TRUE, letsencrypt |-> letsencrypt,
                        key |-> key, cert |-> cert,
                        steps |-> <<"FileExists", "FileExists">>,
                        failure |-> "none", ret |-> "nil"]
            /\ UNCHANGED <<jwtKey, httpServer, router, pc>>
       ELSE /\ jwtKey < MaxKey
            /\ router' = Router
            /\ jwtKey' = resetCookies
            /\ LET start == startOf(letsencrypt, usingSSL') IN
               /\ httpServer' = ModeOf(start)
               /\ call' = [called |-> TRUE, disable |-> FALSE, letsencrypt |-> letsencrypt,
                           key |-> key, cert |-> cert,
                           steps |-> <<"FileExists", "FileExists", "Router",
                                       "resetCookies", start>>,
                           failure |-> IF bindOK THEN "none" ELSE "bind",
                           ret |-> IF bindOK THEN "none" ELSE "error"]
            /\ pc' = IF bindOK THEN "serving" ELSE "idle"
    /\ ev' = Event("RunHTTPServer", NoReq, NoRes, NoResp, FALSE)
    /\ UNCHANGED setupMode

\* RunHTTPServer up to the point where it returns or blocks in the listener.
\* bindOK: whether the listener it starts binds and begins to serve.
RunHTTPServer(disable, letsencrypt, key, cert, bindOK) ==
    /\ pc = "idle"
    /\ IF disable
       THEN /\ call' = [called |-> TRUE, disable |-> TRUE, letsencrypt |-> letsencrypt,
                        key |-> FALSE, cert |-> FALSE, steps |-> <<>>,
                        failure |-> "none", ret |-> "nil"]
            /\ UNCHANGED <<usingSSL, jwtKey, httpServer, router, pc>>
       ELSE /\ jwtKey < MaxKey
            /\ usingSSL' = probeSSL(key, cert)
            /\ router' = Router
            /\ jwtKey' = resetCookies
            /\ LET start == startOf(letsencrypt, usingSSL') IN
               /\ httpServer' = ModeOf(start)
               /\ call' = [called |-> TRUE, disable |-> FALSE, letsencrypt |-> letsencrypt,
                           key |-> key, cert |-> cert,
                           steps |-> <<"FileExists", "FileExists", "Router",
                                       "resetCookies", start>>,
                           failure |-> IF bindOK THEN "none" ELSE "bind",
                           ret |-> IF bindOK THEN "none" ELSE "error"]
            /\ pc' = IF bindOK THEN "serving" ELSE "idle"
    /\ ev' = Event("RunHTTPServer", NoReq, NoRes, NoResp, FALSE)
    /\ UNCHANGED setupMode

\* The listener RunHTTPServer blocks in fails; RunHTTPServer returns its error.
ServeFails ==
    /\ pc = "serving"
    /\ pc' = "idle"
    /\ call' = [call EXCEPT !.failure = "serve", !.ret = "error"]
    /\ ev' = Event("ServeFails", NoReq, NoRes, NoResp, FALSE)
    /\ UNCHANGED <<usingSSL, jwtKey, httpServer, router, setupMode>>

\* handlers.go:31-33: logs, and nothing else
StopHTTPServer ==
    /\ ev' = Event("StopHTTPServer", NoReq, NoRes, NoResp, FALSE)
    /\ UNCHANGED <<usingSSL, jwtKey, httpServer, router, setupMode, pc, call>>

\* A handler asks the queries about request r.
AuthQuery(r) ==
    /\ ev' = Event("auth", r, Resolve(r), NoResp, FALSE)
    /\ UNCHANGED <<usingSSL, jwtKey, httpServer, router, setupMode, pc, call>>

Render(redirect) ==
    /\ ev' = Event("ExecuteResponse", NoReq, NoRes, ExecuteResponse(NoResp, redirect), redirect)
    /\ UNCHANGED <<usingSSL, jwtKey, httpServer, router, setupMode, pc, call>>

NotFound ==
    /\ ev' = Event("error404Handler", NoReq, NoRes, error404Handler(NoResp), FALSE)
    /\ UNCHANGED <<usingSSL, jwtKey, httpServer, router, setupMode, pc, call>>

\* The environment switches the setup/test signal.
SetSetupMode(b) ==
    /\ setupMode # b
    /\ setupMode' = b
    /\ ev' = Event("SetSetupMode", NoReq, NoRes, NoResp, FALSE)
    /\ UNCHANGED <<usingSSL, jwtKey, httpServer, router, pc, call>>

Next ==
    \/ \E d, l, k, c, b \in BOOLEAN : RunHTTPServer(d, l, k, c, b)
    \/ ServeFails
    \/ StopHTTPServer
    \/ \E r \in Requests(jwtKey) : AuthQuery(r)
    \/ \E rd \in BOOLEAN : Render(rd)
    \/ NotFound
    \/ \E b \in BOOLEAN : SetSetupMode(b)

Spec == Init /\ [][Next]_vars

----------------------------------------------------------------------------
\* Vocabulary of the properties

\* c is a correctly signed, unexpired token of the current key
ValidToken(c) == c.kind = "token" /\ c.state = "intact" /\ c.key = jwtKey

NoCredential(r) == r.apiQuery = "none" /\ r.authHeader = "none"

StartFns == {"startLetsEncryptServer", "startSSLServer", "startServer"}

Starts(c) == {i \in DOMAIN c.steps : c.steps[i] \in StartFns}

Started(c) == IF c.steps = <<>> THEN "none" ELSE c.steps[Len(c.steps)]

\* the last RunHTTPServer call had the listener enabled
Booted == call.called /\ ~call.disable

\* no query takes the cookie of r for a session
Rejected(r) ==
    /\ ~IsAdmin(r).ret
    /\ IsUser(r).ret => setupMode
    /\ IsFullAuthenticated(r).ret =>
           setupMode \/ r.apiQuery = "valid" \/ r.authHeader = "valid"
    /\ IsReadAuthenticated(r).ret =>
           setupMode \/ r.apiQuery = "valid" \/ r.authHeader = "valid"
    /\ ScopeName(r).ret # "" => r.apiQuery = "valid" \/ r.authHeader = "valid"

----------------------------------------------------------------------------
\* C1: a request with a valid non-admin token, no API key, no Authorization
\* credential and setup mode off gets IsAdmin false, ScopeName "user", and
\* IsFullAuthenticated and IsReadAuthenticated true.
C1_NonAdminToken ==
    ( /\ ev.op = "auth"
      /\ ValidToken(ev.req.cookie)
      /\ ~ev.req.cookie.admin
      /\ NoCredential(ev.req)
      /\ ~setupMode )
    => /\ ~ev.res.admin.ret
       /\ ev.res.scope.ret = "user"
       /\ ev.res.full.ret
       /\ ev.res.read.ret

\* C2: with the setup-mode bypass active, IsReadAuthenticated,
\* IsFullAuthenticated and IsUser are true for every request, and IsAdmin is
\* true exactly when the cookie holds a valid token with admin = true.
C2_SetupBypass ==
    (ev.op = "auth" /\ setupMode)
    => /\ ev.res.read.ret
       /\ ev.res.full.ret
       /\ ev.res.user.ret
       /\ ev.res.admin.ret <=> (ValidToken(ev.req.cookie) /\ ev.req.cookie.admin)

C2_Witness ==
    /\ ev.op = "auth"
    /\ setupMode
    /\ ev.req.cookie = NoCookie
    /\ NoCredential(ev.req)
    /\ ev.res.user.ret
    /\ ~ev.res.admin.ret

\* C3: every RunHTTPServer call with the listener enabled starts exactly one
\* listener, chosen from the configuration and the files found at that call:
\* AutoTLS if LETSENCRYPT_ENABLE, else StaticTLS if both files are present,
\* else Plain.
C3_ModeFromThisCall ==
    Booted
    => /\ Cardinality(Starts(call)) = 1
       /\ ModeOf(Started(call)) =
            IF call.letsencrypt THEN "AutoTLS"
            ELSE IF call.key /\ call.cert THEN "StaticTLS"
            ELSE "Plain"

\* C4: on every start that serves, resetCookies runs before the listener is
\* started, and a cookie that was accepted before the start is taken for a
\* session by no query after it.
C4_ResetBeforeServe ==
    /\ [](Booted =>
            \E i, j \in DOMAIN call.steps :
                /\ call.steps[i] = "resetCookies"
                /\ call.steps[j] \in StartFns
                /\ i < j)
    /\ []((ev.op = "auth" /\ ev.req.cookie.kind = "token" /\ ev.req.cookie.key < jwtKey)
            => Rejected(ev.req))
    /\ [][(ev'.op = "RunHTTPServer" /\ ~call'.disable)
            => \A r \in Requests(jwtKey) :
                   ValidToken(r.cookie) => Rejected(r)']_vars

C4_Witness ==
    /\ ev.op = "auth"
    /\ pc = "serving"
    /\ ev.req.cookie.kind = "token"
    /\ ev.req.cookie.state = "intact"
    /\ ev.req.cookie.key = jwtKey - 1
    /\ NoCredential(ev.req)
    /\ ~setupMode
    /\ ~ev.res.read.ret
    /\ ev.res.scope.ret = ""

\* C5: with no API key, no Authorization credential and setup mode off, a
\* request whose cookie is absent or fails verification gets false from
\* IsReadAuthenticated, IsFullAuthenticated, IsAdmin and IsUser, and "" from
\* ScopeName.
C5_NoCredentials ==
    ( /\ ev.op = "auth"
      /\ NoCredential(ev.req)
      /\ ~setupMode
      /\ ~ValidToken(ev.req.cookie) )
    => /\ ~ev.res.read.ret
       /\ ~ev.res.full.ret
       /\ ~ev.res.admin.ret
       /\ ~ev.res.user.ret
       /\ ev.res.scope.ret = ""

C5_Witness ==
    /\ ev.op = "auth"
    /\ NoCredential(ev.req)
    /\ ~setupMode
    /\ ev.req.cookie.kind = "token"
    /\ ev.req.cookie.state = "tampered"
    /\ ev.req.cookie.key = jwtKey
    /\ ev.req.cookie.admin
    /\ ~ev.res.user.ret
    /\ ev.res.scope.ret = ""

\* C6: a request with a valid admin token, in any setup-mode state and with
\* any API key or header credential, gets true from IsAdmin,
\* IsFullAuthenticated and IsReadAuthenticated, and "admin" from ScopeName.
C6_AdminToken ==
    (ev.op = "auth" /\ ValidToken(ev.req.cookie) /\ ev.req.cookie.admin)
    => /\ ev.res.admin.ret
       /\ ev.res.full.ret
       /\ ev.res.read.ret
       /\ ev.res.scope.ret = "admin"

C6_Witness ==
    /\ ev.op = "auth"
    /\ ValidToken(ev.req.cookie)
    /\ ev.req.cookie.admin
    /\ ~setupMode
    /\ ev.req.apiQuery = "invalid"
    /\ ev.req.authHeader = "none"
    /\ ev.res.full.ret
    /\ ev.res.scope.ret = "admin"

\* C7: a request with a valid API key or a valid Authorization credential gets
\* "admin" from ScopeName and true from IsReadAuthenticated and
\* IsFullAuthenticated, none of them reading the cookie, while IsAdmin is true
\* exactly when the cookie holds a valid token with admin = true.
C7_ApiKey ==
    (ev.op = "auth" /\ (ev.req.apiQuery = "valid" \/ ev.req.authHeader = "valid"))
    => /\ ev.res.scope = [ret |-> "admin", tok |-> FALSE]
       /\ ev.res.read = [ret |-> TRUE, tok |-> FALSE]
       /\ ev.res.full = [ret |-> TRUE, tok |-> FALSE]
       /\ ev.res.admin.ret <=> (ValidToken(ev.req.cookie) /\ ev.req.cookie.admin)

C7_Witness ==
    /\ ev.op = "auth"
    /\ ev.req.apiQuery = "none"
    /\ ev.req.authHeader = "valid"
    /\ ~setupMode
    /\ ValidToken(ev.req.cookie)
    /\ ~ev.req.cookie.admin
    /\ ev.res.scope.ret = "admin"
    /\ ~ev.res.admin.ret

\* C8: once the bootstrapper has started a listener (which it does in every
\* call that builds the router), the state after StopHTTPServer holds no
\* server handle and has no listener serving.
C8_StopReleases ==
    (ev.op = "StopHTTPServer" /\ router > 0)
    => (httpServer = "nil" /\ pc # "serving")

\* C9: with DISABLE_HTTP set RunHTTPServer returns nil, probes no file, leaves
\* usingSSL, the router, the signing key and the server handle alone and
\* starts no listener; with DISABLE_HTTP not set it returns an error exactly
\* when the listener it started failed to bind or to serve.
C9_DisabledIsNoOp ==
    /\ [][(ev'.op = "RunHTTPServer" /\ call'.disable)
            => /\ call'.ret = "nil"
               /\ call'.steps = <<>>
               /\ UNCHANGED <<usingSSL, router, jwtKey, httpServer, pc>>]_vars
    /\ [](Booted =>
            /\ call.ret # "nil"
            /\ call.ret = "error" <=> call.failure # "none"
            /\ call.ret = "none" <=> pc = "serving")

C9_Witness ==
    /\ ev.op = "RunHTTPServer"
    /\ call.disable
    /\ call.ret = "nil"
    /\ httpServer = "Plain"
    /\ ~usingSSL
    /\ jwtKey = 1

\* C10 as stated: usingSSL starts false, becomes true only in a RunHTTPServer
\* call that finds both files, is never set back to false; once it is true
\* every RunHTTPServer call with LETSENCRYPT_ENABLE off starts the static-TLS
\* server, and ExecuteResponse and error404Handler add the
\* Strict-Transport-Security header on every non-redirect response.
C10_Original ==
    [][ /\ usingSSL => usingSSL'
        /\ (~usingSSL /\ usingSSL')
              => (ev'.op = "RunHTTPServer" /\ call'.key /\ call'.cert)
        /\ (ev'.op = "RunHTTPServer" /\ usingSSL' /\ ~call'.letsencrypt)
              => Started(call') = "startSSLServer"
        /\ (ev'.op \in {"ExecuteResponse", "error404Handler"} /\ usingSSL' /\ ~ev'.redirect)
              => ev'.w.hsts >= 1 ]_vars

\* C10 as amended: the same, for the RunHTTPServer calls that have the
\* listener enabled (DISABLE_HTTP off).
C10_StickySSL ==
    /\ [](~call.called => ~usingSSL)
    /\ [][ /\ usingSSL => usingSSL'
           /\ (~usingSSL /\ usingSSL')
                 => (ev'.op = "RunHTTPServer" /\ call'.key /\ call'.cert)
           /\ (ev'.op = "RunHTTPServer" /\ ~call'.disable /\ usingSSL' /\ ~call'.letsencrypt)
                 => Started(call') = "startSSLServer"
           /\ (ev'.op \in {"ExecuteResponse", "error404Handler"} /\ usingSSL' /\ ~ev'.redirect)
                 => ev'.w.hsts >= 1 ]_vars

C10_Witness ==
    /\ ev.op = "RunHTTPServer"
    /\ Booted
    /\ usingSSL
    /\ ~call.letsencrypt
    /\ ~call.key
    /\ ~call.cert
    /\ Started(call) = "startSSLServer"

====
